---- MODULE Spec2Model ----
(***************************************************************************)
(* Model of package run (src/run/run.go): the Runner that shells out to a  *)
(* `type` binary, classifies the first line of its output and dispatches   *)
(* the modes type / all / path.                                            *)
(*                                                                         *)
(* Go strings are modelled as sequences of one-character strings, so that  *)
(* strings.Split, strings.Contains, strings.EqualFold, strings.ToLower,    *)
(* strings.TrimSpace, strings.HasPrefix and strings.HasSuffix are computed *)
(* character by character, as the library computes them (ASCII only).      *)
(***************************************************************************)
EXTENDS Integers, Sequences, FiniteSets, TLC

VARIABLES
    bin,        \* Runner.bin: path of the lookup binary
    errFile,    \* Runner.err:    "nil" or "file"
    outFile,    \* Runner.output: "nil" or "file"
                \* (Runner.input is stored by SetOut and never read: left out)
    handlers,   \* Runner.flagHandlers: the set of registered mode names
    crashed,    \* TRUE once a call has panicked (no recover in the package)
    last        \* what the last call was given, did and returned

vars == <<bin, errFile, outFile, handlers, crashed, last>>

----------------------------------------------------------------------------
(* Bounds of the model. *)

\* Largest number of fragments concatenated into a text the lookup prints.
MaxFrags == 2

----------------------------------------------------------------------------
(* The strings package, on sequences of characters. *)

\* unicode.ToLower on the ASCII letters
LowerOf ==
    [c \in {"A","B","C","D","E","F","G","H","I","J","K","L","M",
            "N","O","P","Q","R","S","T","U","V","W","X","Y","Z"} |->
        CASE c = "A" -> "a" [] c = "B" -> "b" [] c = "C" -> "c" [] c = "D" -> "d"
          [] c = "E" -> "e" [] c = "F" -> "f" [] c = "G" -> "g" [] c = "H" -> "h"
          [] c = "I" -> "i" [] c = "J" -> "j" [] c = "K" -> "k" [] c = "L" -> "l"
          [] c = "M" -> "m" [] c = "N" -> "n" [] c = "O" -> "o" [] c = "P" -> "p"
          [] c = "Q" -> "q" [] c = "R" -> "r" [] c = "S" -> "s" [] c = "T" -> "t"
          [] c = "U" -> "u" [] c = "V" -> "v" [] c = "W" -> "w" [] c = "X" -> "x"
          [] c = "Y" -> "y" [] c = "Z" -> "z"]

LowerChar(c) == IF c \in DOMAIN LowerOf THEN LowerOf[c] ELSE c

\* strings.ToLower
ToLower(s) == [i \in 1..Len(s) |-> LowerChar(s[i])]

\* strings.EqualFold (simple case folding; on ASCII, equality of the lowered strings)
EqualFold(s, t) == ToLower(s) = ToLower(t)

\* strings.Index: 1-based position of the first occurrence of w in s, 0 if none
RECURSIVE IndexFrom(_, _, _)
IndexFrom(s, w, i) ==
    IF i + Len(w) - 1 > Len(s) THEN 0
    ELSE IF SubSeq(s, i, i + Len(w) - 1) = w THEN i
    ELSE IndexFrom(s, w, i + 1)

Index(s, w) == IndexFrom(s, w, 1)

\* strings.Contains
Contains(s, w) == Index(s, w) # 0

\* strings.HasPrefix / strings.HasSuffix
HasPrefix(s, p) == Len(s) >= Len(p) /\ SubSeq(s, 1, Len(p)) = p
HasSuffix(s, p) == Len(s) >= Len(p) /\ SubSeq(s, Len(s) - Len(p) + 1, Len(s)) = p

\* strings.Split(s, sep) for a non-empty sep: cut at every non-overlapping
\* occurrence, left to right; always at least one element.
RECURSIVE Split(_, _)
Split(s, sep) ==
    LET i == Index(s, sep)
    IN  IF i = 0 THEN <<s>>
        ELSE <<SubSeq(s, 1, i - 1)>> \o Split(SubSeq(s, i + Len(sep), Len(s)), sep)

WhiteSpace == {" ", "\t", "\n", "\r", "\f"}

\* strings.TrimSpace
RECURSIVE TrimLeft(_)
TrimLeft(s) == IF s # <<>> /\ Head(s) \in WhiteSpace THEN TrimLeft(Tail(s)) ELSE s
RECURSIVE TrimRight(_)
TrimRight(s) ==
    IF s # <<>> /\ s[Len(s)] \in WhiteSpace THEN TrimRight(SubSeq(s, 1, Len(s) - 1)) ELSE s
TrimSpace(s) == TrimRight(TrimLeft(s))

NL == <<"\n">>

----------------------------------------------------------------------------
(* commandType, types, typesMatches, shortFlagMap. *)

defaultBind  == <<"/","u","s","r","/","b","i","n","/","t","y","p","e">>
TypeAlias    == <<"a","l","i","a","s">>
TypeKeyword  == <<"k","e","y","w","o","r","d">>
TypeFunction == <<"f","u","n","c","t","i","o","n">>
TypeBuiltin  == <<"b","u","i","l","t","i","n">>
TypeFile     == <<"f","i","l","e">>
TypeUnFound  == <<"u","n","f","o","u","n","d">>

types == <<TypeAlias, TypeKeyword, TypeFunction, TypeBuiltin, TypeFile, TypeUnFound>>

\* typesMatches[ty].MatchWords, in declared order
typesMatches(ty) ==
    CASE ty = TypeAlias    -> << <<"a","l","i","a","s">> >>
      [] ty = TypeKeyword  -> << <<"w","o","r","d">> >>
      [] ty = TypeFunction -> << <<"s","h","e","l","l"," ","f","u","n","c","t","i","o","n">>, <<"f","u","n","c","t","i","o","n">> >>
      [] ty = TypeBuiltin  -> << <<"b","u","i","l","t","i","n">> >>
      [] ty = TypeFile     -> << <<"f","i","l","e">>, <<"i","s">> >>
      [] ty = TypeUnFound  -> << <<"n","o","t">>, <<"f","o","u","n","d">> >>

\* commandType.Eq
Eq(ty, str) == EqualFold(str, ty)

\* Match with the match words looked for in the lowered line
MatchFold(ty, info) ==
    \/ Eq(ty, info)
    \/ \E k \in 1..Len(typesMatches(ty)) : Contains(ToLower(info), typesMatches(ty)[k])

\* commandType.Match: the name, any letter case, or one of the match words
\* as a substring (strings.Contains: exact case)
Match(ty, info) ==
    \/ Eq(ty, info)
    \/ \E k \in 1..Len(typesMatches(ty)) : Contains(info, typesMatches(ty)[k])

\* Runner.getType: the loop over types, returning at the first match
RECURSIVE getTypeFrom(_, _)
getTypeFrom(i, info) ==
    IF i > Len(types) THEN TypeUnFound
    ELSE IF Match(types[i], info) THEN types[i]
    ELSE getTypeFrom(i + 1, info)

\* getType with a loop that keeps going and returns the last match
RECURSIVE getTypeLastFrom(_, _)
getTypeLastFrom(i, info) ==
    IF i < 1 THEN TypeUnFound
    ELSE IF Match(types[i], info) THEN types[i]
    ELSE getTypeLastFrom(i - 1, info)

getTypeLast(info) == getTypeLastFrom(Len(types), info)

getType(info) == getTypeFrom(1, info)

ModeType == <<"t","y","p","e">>
ModeAll  == <<"a","l","l">>
ModePath == <<"p","a","t","h">>

\* shortFlagMap: its keys and the lookup
shortFlagKeys == { <<"-","t">>, <<"-","a">>, <<"-","p">> }
shortFlagMap(k) ==
    CASE k = <<"-","t">> -> ModeType
      [] k = <<"-","a">> -> ModeAll
      [] k = <<"-","p">> -> ModePath

\* short2Long falling back to "type" for a short flag it does not know
short2LongDefault(flag) ==
    IF ToLower(flag) \in shortFlagKeys THEN shortFlagMap(ToLower(flag)) ELSE ModeType

\* Runner.short2Long
short2Long(flag) ==
    IF ToLower(flag) \in shortFlagKeys THEN shortFlagMap(ToLower(flag)) ELSE flag

\* Runner.createHandlers: the keys of the handler table
createHandlers == {ModeType, ModeAll, ModePath}

----------------------------------------------------------------------------
(* Result and the three mode handlers.  A handler gets the command name    *)
(* and the outcome of command.Output(): sub.err (the process could not be  *)
(* run or exited non-zero) and sub.bytes (its standard output).            *)

NilErr == [isNil |-> TRUE, msg |-> <<>>]
NewErr(m) == [isNil |-> FALSE, msg |-> m]

\* what a handler hands back: (string, error), or a run-time panic
Returned(o, e) == [output |-> o, err |-> e, panic |-> FALSE]
Panicked == [output |-> <<>>, err |-> NilErr, panic |-> TRUE]

\* parseType handing the lookup's error on to the caller
parseTypeErr(cmd, sub) ==
    IF sub.err THEN Returned(<<>>, NewErr(<<"e","x","i","t"," ","s","t","a","t","u","s"," ","1">>))
    ELSE IF Len(sub.bytes) <= 0 THEN Returned(TypeUnFound, NilErr)
    ELSE LET lines == Split(sub.bytes, NL)
         IN  Returned(getType(lines[1]), NilErr)

\* Runner.parseType
parseType(cmd, sub) ==
    IF sub.err THEN Returned(TypeUnFound, NilErr)
    ELSE IF Len(sub.bytes) <= 0 THEN Returned(TypeUnFound, NilErr)
    ELSE LET lines == Split(sub.bytes, NL)
         IN  Returned(getType(lines[1]), NilErr)

\* Runner.parseAll
parseAll(cmd, sub) ==
    IF sub.err THEN Returned(cmd \o <<" ","n","o","t"," ","f","o","u","n","d">>, NilErr)
    ELSE Returned(sub.bytes, NilErr)

\* Runner.parsePath: lines[index] and paths[1] are Go's 0-based indexing;
\* an index past the end of the slice is a run-time panic.
parsePath(cmd, sub) ==
    IF sub.err THEN Returned(cmd \o <<" ","n","o","t"," ","f","o","u","n","d">>, NilErr)
    ELSE LET lines == Split(sub.bytes, NL)
             ty    == getType(lines[1])
         IN  IF ty = TypeFile
             THEN LET index == IF Len(lines) < 2 THEN 0 ELSE 1
                      paths == Split(lines[index + 1], <<"i","s">>)
                  IN  IF Len(paths) < 2 THEN Panicked
                      ELSE Returned(TrimSpace(paths[2]), NilErr)
             ELSE Returned(<<>>, NilErr)

----------------------------------------------------------------------------
(* Runner.check, Runner.Exec.                                              *)

\* Runner.check: the error it returns (the handler table is filled in by
\* the Exec action, which is where the assignment lands)
check(b) ==
    IF b = <<>> THEN NewErr(<<"m","i","s","s"," ","i","n","i","t"," ","t","y","p","e"," ","b","u","i","l","t"," ","e","n","v",":","B","U","I","L","T","I","N","_","T","Y","P","E","_","B","I","N">>) ELSE NilErr

\* Runner.command + command.Output(): the process started, as (binary, args)
command(b, args) == [bin |-> b, args |-> args]

\* fmt.Println / fmt.Fprintln of operands: joined by spaces, newline added
Println2(a, b) == a \o <<" ">> \o b \o NL

\* r.flagHandlers[flag] applied to cmd
CallHandler(flag, cmd, sub) ==
    CASE flag = ModeType -> parseType(cmd, sub)
      [] flag = ModeAll  -> parseAll(cmd, sub)
      [] flag = ModePath -> parsePath(cmd, sub)

\* the text Exec renders: print(out) when out ends in a newline, else println(out)
Render(out) == IF HasSuffix(out, NL) THEN out ELSE out \o NL

\* What one call of Exec does, given the bound binary b, the handler table
\* hs, its arguments and the outcome sub the lookup process would have:
\*   rs      the Result returned (output, err), meaningless when panic
\*   spawned the processes started, in order
\*   printed what print/println wrote, logged what errLog wrote
Outcome(o, e, p, sp, pr, lg) ==
    [rs |-> [output |-> o, err |-> e], panic |-> p, spawned |-> sp,
     printed |-> pr, logged |-> lg]

\* Exec without the early return on an empty command name
ExecBodyNoEmpty(b, hs, flag, cmd, sub) ==
    LET e == check(b) IN
    IF ~e.isNil
    THEN Outcome(<<>>, e, FALSE, <<>>, <<>>, << Println2(<<"c","m","d"," ","e","r","r",":">>, e.msg) >>)
    ELSE LET f == IF HasPrefix(flag, <<"-">>) THEN short2Long(flag) ELSE flag IN
         IF f \in hs
         THEN LET h  == CallHandler(f, cmd, sub)
                  sp == << command(b, << <<"-","a">>, cmd >>) >>
              IN  IF h.panic
                  THEN Outcome(<<>>, NilErr, TRUE, sp, <<>>, <<>>)
                  ELSE Outcome(h.output, h.err, FALSE, sp, << Render(h.output) >>, <<>>)
         ELSE Outcome(<<>>, NewErr(f \o <<":","f","l","a","g"," ","u","n","d","e","f","i","n","e","d"," ">>), FALSE, <<>>,
                      << Render(<<>>) >>, <<>>)

ExecBody(b, hs, flag, cmd, sub) ==
    LET e == check(b) IN
    IF ~e.isNil
    THEN Outcome(<<>>, e, FALSE, <<>>, <<>>, << Println2(<<"c","m","d"," ","e","r","r",":">>, e.msg) >>)
    ELSE IF cmd = <<>>
    THEN Outcome(<<>>, NilErr, FALSE, <<>>, <<>>, <<>>)
    ELSE LET f == IF HasPrefix(flag, <<"-">>) THEN short2Long(flag) ELSE flag IN
         IF f \in hs
         THEN LET h  == CallHandler(f, cmd, sub)
                  sp == << command(b, << <<"-","a">>, cmd >>) >>
              IN  IF h.panic
                  THEN Outcome(<<>>, NilErr, TRUE, sp, <<>>, <<>>)
                  ELSE Outcome(h.output, h.err, FALSE, sp, << Render(h.output) >>, <<>>)
         ELSE Outcome(<<>>, NewErr(f \o <<":","f","l","a","g"," ","u","n","d","e","f","i","n","e","d"," ">>), FALSE, <<>>,
                      << Render(<<>>) >>, <<>>)

----------------------------------------------------------------------------
(* The environment: what the caller passes and what the system answers.    *)

\* values of the environment variable BUILTIN_TYPE_BIN ("" when unset)
EnvValues == { <<>>, <<"/","o","p","t","/","t","y">> }

\* working directory and the files os.Stat finds
Cwd == <<"/","w">>
ExistingFiles == { defaultBind, <<"/","o","p","t","/","t","y">>, <<"/","w","/","t">> }

\* arguments given to Bind
BindPaths == { <<>>, <<"/","o","p","t","/","t","y">>, <<"/","n","o">>, <<"t">>, <<"n","o">> }

\* mode tokens and command names given to Exec
Flags == { <<"t","y","p","e">>, <<"a","l","l">>, <<"p","a","t","h">>, <<"-","t">>, <<"-","a">>, <<"-","p">>,
           <<"-","T">>, <<"-","x">>, <<"T","y","p","e">>, <<"b","o","g","u","s">>, <<>> }
Cmds == { <<>>, <<"l","s">> }

\* texts the lookup binary prints: outputs of real shells, lines built to
\* hit every category, and every concatenation of up to MaxFrags fragments
Curated ==
    { <<>>,
      <<"l","s"," ","i","s"," ","/","b","i","n","/","l","s","\n">>,
      <<"l","s"," ","i","s"," ","/","b","i","n","/","l","s">>,
      <<"l","s"," ","i","s"," ","/","b","i","n","/","l","s","\n","l","s"," ","i","s"," ","/","u","s","r","/","b","i","n","/","l","s","\n">>,
      <<"l","l"," ","i","s"," ","a","l","i","a","s","e","d"," ","t","o"," ","l","s","\n","l","l"," ","i","s"," ","/","b","i","n","/","l","l","\n">>,
      <<"c","d"," ","i","s"," ","a"," ","s","h","e","l","l"," ","b","u","i","l","t","i","n","\n">>,
      <<"i","f"," ","i","s"," ","a"," ","s","h","e","l","l"," ","k","e","y","w","o","r","d","\n">>,
      <<"f"," ","i","s"," ","a"," ","f","u","n","c","t","i","o","n","\n">>,
      <<"l","l",":"," ","a","l","i","a","s","e","d"," ","f","u","n","c","t","i","o","n"," ","w","r","a","p","p","e","r">>,
      <<"C","D"," ","I","S"," ","A"," ","S","H","E","L","L"," ","B","U","I","L","T","I","N","\n">>,
      <<"B","u","i","l","t","I","n">>,
      <<"x","y","z">>,
      <<"l","s"," ","n","o","t"," ","f","o","u","n","d","\n">>,
      <<"l","i","s","t"," ","i","s"," ","/","b","i","n","/","l","i","s","t">>,
      <<"s","o","m","e","f","i","l","e">> }

Fragments == { <<"l","s"," ","i","s"," ","/","b","i","n","/","l","s">>, <<"\n">>, <<" ","i","s"," ">>, <<"a","l","i","a","s">>, <<"f","u","n","c","t","i","o","n">>, <<"B","U","I","L","T","I","N">> }

RECURSIVE Concats(_)
Concats(n) ==
    IF n = 0 THEN { <<>> }
    ELSE Concats(n - 1) \cup { t \o f : t \in Concats(n - 1), f \in Fragments }

Texts == Curated \cup Concats(MaxFrags)

\* outcomes of command.Output(): success with a text, or an error (the
\* binary cannot be run, or exits non-zero, with or without output)
SubOutcomes ==
    { [err |-> FALSE, bytes |-> t] : t \in Texts }
    \cup { [err |-> TRUE, bytes |-> t] : t \in { <<>>, <<"l","s"," ","n","o","t"," ","f","o","u","n","d","\n">> } }
NoSub == [err |-> FALSE, bytes |-> <<>>]

\* filepath.IsAbs (Unix)
IsAbs(p) == HasPrefix(p, <<"/">>)
\* filepath.Abs of a relative path, when the working directory is known
Abs(p) == Cwd \o <<"/">> \o p

----------------------------------------------------------------------------
(* The state machine. *)

Record(op, flag, cmd, path, before, sub, o, so, se) ==
    [op |-> op, flag |-> flag, cmd |-> cmd, path |-> path, binBefore |-> before,
     sub |-> sub, spawned |-> o.spawned, rs |-> o.rs, panic |-> o.panic,
     toOut |-> so[1], toStdout |-> so[2], toErr |-> se]

NoOutcome == Outcome(<<>>, NilErr, FALSE, <<>>, <<>>, <<>>)

\* GetEnvOr
GetEnvOr(v, defaultValue) == IF v = <<>> THEN defaultValue ELSE v

\* where print/println write: r.output, or the process's stdout when it is nil
\* (a pair: written to r.output, written to stdout)
PrintTo(out, texts) == IF out = "nil" THEN << <<>>, texts >> ELSE << texts, <<>> >>

\* where errLog writes: stdout when r.output is nil, else r.err (a write to
\* a nil *os.File fails and is dropped).
\* (a triple: to r.output, to stdout, to r.err)
errLog(out, err, texts) ==
    IF out = "nil" THEN << <<>>, texts, <<>> >>
    ELSE IF err = "nil" THEN << <<>>, <<>>, <<>> >>
    ELSE << <<>>, <<>>, texts >>

\* no call in progress and no result held by the caller
Idle == Record("none", <<>>, <<>>, <<>>, <<>>, NoSub, NoOutcome, << <<>>, <<>> >>, <<>>)

\* NewRunner(err, input, output): init, then SetOut
Init ==
    /\ \E v \in EnvValues : bin = GetEnvOr(v, defaultBind)
    /\ handlers = createHandlers
    /\ errFile \in {"nil", "file"}
    /\ outFile \in {"nil", "file"}
    /\ crashed = FALSE
    /\ last = Idle

\* Runner.SetOut
SetOut(e, o) ==
    /\ ~crashed /\ last = Idle
    /\ errFile' = e
    /\ outFile' = o
    /\ last' = Record("SetOut", <<>>, <<>>, <<>>, bin, NoSub, NoOutcome,
                      << <<>>, <<>> >>, <<>>)
    /\ UNCHANGED <<bin, handlers, crashed>>

\* Runner.Bind: the binary bound after Bind(p) and the messages it logs;
\* absOk is whether filepath.Abs succeeds
BindBody(b, p, absOk) ==
    IF p = <<>> THEN [bin |-> b, logged |-> <<>>]
    ELSE IF ~IsAbs(p)
    THEN IF ~absOk
         THEN [bin |-> b,
               logged |-> << Println2(<<"E","R","R","O","R",":">>, <<"g","e","t","w","d",":"," ","n","o"," ","s","u","c","h"," ","f","i","l","e"," ","o","r"," ","d","i","r","e","c","t","o","r","y">>) >>]
         ELSE IF Abs(p) \notin ExistingFiles
         THEN [bin |-> b,
               logged |-> << Println2(<<"E","R","R","O","R",":">>,
                               <<"s","t","a","t"," ">> \o Abs(p) \o <<":"," ","n","o"," ","s","u","c","h"," ","f","i","l","e"," ","o","r"," ","d","i","r","e","c","t","o","r","y">>) >>]
         ELSE [bin |-> Abs(p), logged |-> <<>>]
    ELSE [bin |-> b, logged |-> <<>>]

Bind(p, absOk) ==
    /\ ~crashed /\ last = Idle
    /\ LET r == BindBody(bin, p, absOk)
           w == errLog(outFile, errFile, r.logged)
       IN  /\ bin' = r.bin
           /\ last' = Record("Bind", <<>>, <<>>, p, bin, NoSub, NoOutcome,
                             << w[1], w[2] >>, w[3])
    /\ UNCHANGED <<errFile, outFile, handlers, crashed>>

\* Runner.Exec
Exec(flag, cmd, sub) ==
    /\ ~crashed /\ last = Idle
    /\ LET hs == IF handlers = {} THEN createHandlers ELSE handlers IN
       \E o \in {ExecBody(bin, hs, flag, cmd, sub)} :
         LET pr == PrintTo(outFile, o.printed)
             lg == errLog(outFile, errFile, o.logged)
         IN  /\ handlers' = hs
             /\ crashed' = o.panic
             /\ last' = Record("Exec", flag, cmd, <<>>, bin,
                               IF o.spawned = <<>> THEN NoSub ELSE sub, o,
                               << pr[1] \o lg[1], pr[2] \o lg[2] >>, lg[3])
    /\ UNCHANGED <<bin, errFile, outFile>>

\* The caller is done with what the call returned (the command-line front
\* end drops the Result at once) and may make its next call.
Return ==
    /\ ~crashed /\ last # Idle
    /\ last' = Idle
    /\ UNCHANGED <<bin, errFile, outFile, handlers, crashed>>

\* the lookup outcomes that matter to a call: only a call that starts the
\* lookup process has one
SubsFor(flag, cmd) ==
    IF ExecBody(bin, createHandlers, flag, cmd, NoSub).spawned = <<>>
    THEN {NoSub} ELSE SubOutcomes

\* a call of Exec with any mode token, any command name and any lookup outcome
ExecCall ==
    \E flag \in Flags, cmd \in Cmds : \E sub \in SubsFor(flag, cmd) : Exec(flag, cmd, sub)

Next ==
    \/ \E e \in {"nil", "file"}, o \in {"nil", "file"} : SetOut(e, o)
    \/ \E p \in BindPaths, absOk \in BOOLEAN : Bind(p, absOk)
    \/ ExecCall
    \/ Return

Spec == Init /\ [][Next]_vars

----------------------------------------------------------------------------
(* Properties.  They read the record of the last call: its arguments, the  *)
(* lookup outcome it consumed, what it started, wrote and returned.        *)

TypeTokens == { <<"t","y","p","e">>, <<"-","t">> }
PathTokens == { <<"p","a","t","h">>, <<"-","p">> }

ExecOf(tokens) == last.op = "Exec" /\ last.flag \in tokens /\ last.cmd # <<>>

\* the text up to the first newline
FirstLine(text) ==
    IF \E p \in 1..Len(text) : text[p] = "\n"
    THEN SubSeq(text, 1, (CHOOSE p \in 1..Len(text) :
                             text[p] = "\n" /\ \A q \in 1..(p - 1) : text[q] # "\n") - 1)
    ELSE text

\* position of a category in the fixed order
Rank(ty) == CHOOSE i \in 1..Len(types) : types[i] = ty

\* w occurs in line, letter for letter
Occurs(line, w) ==
    \E p \in 1..(Len(line) - Len(w) + 1) : \A q \in 1..Len(w) : line[p + q - 1] = w[q]

\* a type-mode call whose lookup succeeded and printed something
TypeLookupOk == ExecOf(TypeTokens) /\ ~last.sub.err /\ last.sub.bytes # <<>>

\* C1: Exec in type mode, for a non-empty command name and any outcome of
\* the lookup process, returns a Result without error whose output is one
\* of the six category names, and unfound when the lookup failed or
\* printed nothing.
C1_TypeModeTotal ==
    ExecOf(TypeTokens) =>
        /\ ~last.panic
        /\ last.spawned # <<>>
        /\ last.rs.err.isNil
        /\ \E i \in 1..Len(types) : last.rs.output = types[i]
        /\ (last.sub.err \/ last.sub.bytes = <<>>) => last.rs.output = TypeUnFound

C1_Witness ==
    /\ ExecOf(TypeTokens)
    /\ \/ ~last.sub.err /\ last.sub.bytes = <<"l","s"," ","i","s"," ","/","b","i","n","/","l","s","\n">> /\ last.rs.output = TypeFile
       \/ last.sub.err /\ last.sub.bytes # <<>> /\ last.rs.output = TypeUnFound

\* C4: classification is first-match-wins over alias, keyword, function,
\* builtin, file, unfound: the category returned is the earliest one that
\* matches the line, unfound when none does; a line with both "alias" and
\* "function" in it is an alias.
C4_FirstMatchWins ==
    TypeLookupOk =>
        LET line == FirstLine(last.sub.bytes)
            r    == last.rs.output
        IN  /\ \E i \in 1..Len(types) :
                  /\ r = types[i]
                  /\ \A j \in 1..(i - 1) : ~Match(types[j], line)
                  /\ \/ Match(types[i], line)
                     \/ i = Len(types) /\ \A j \in 1..Len(types) : ~Match(types[j], line)
            /\ (Occurs(line, <<"a","l","i","a","s">>) /\ Occurs(line, <<"f","u","n","c","t","i","o","n">>)) => r = TypeAlias

C4_Witness ==
    /\ TypeLookupOk
    /\ last.sub.bytes = <<"l","l",":"," ","a","l","i","a","s","e","d"," ","f","u","n","c","t","i","o","n"," ","w","r","a","p","p","e","r">>
    /\ last.rs.output = TypeAlias

\* C5 as stated: a match phrase is recognised in any letter casing, so a
\* category one of whose phrases occurs in the line, whatever the casing,
\* matches it and the classification is that category or an earlier one.
C5_PhrasesAnyCase ==
    TypeLookupOk =>
        LET line == FirstLine(last.sub.bytes) IN
        \A i \in 1..Len(types) :
            (\E k \in 1..Len(typesMatches(types[i])) :
                 Occurs(ToLower(line), typesMatches(types[i])[k]))
            => Match(types[i], line) /\ Rank(last.rs.output) <= i

\* letter-for-letter recognition: the name in any letter case, or a match
\* phrase spelled exactly as in the table
ExactHit(ty, line) ==
    \/ ToLower(line) = ty
    \/ \E k \in 1..Len(typesMatches(ty)) : Occurs(line, typesMatches(ty)[k])

\* C5, amended: only the category's name is recognised in any letter case;
\* a match phrase is recognised only spelled exactly as in the table (lower
\* case).  The classification is the earliest category with such a hit, and
\* a line whose phrases occur only in another casing is unfound.
C5_PhrasesExactCase ==
    TypeLookupOk =>
        LET line == FirstLine(last.sub.bytes)
            r    == last.rs.output
        IN  /\ r # TypeUnFound => ExactHit(r, line)
            /\ \A i \in 1..Len(types) : ExactHit(types[i], line) => Rank(r) <= i

C5_Witness ==
    /\ TypeLookupOk
    /\ last.sub.bytes = <<"C","D"," ","I","S"," ","A"," ","S","H","E","L","L"," ","B","U","I","L","T","I","N","\n">>
    /\ last.rs.output = TypeUnFound

Modes == { <<"t","y","p","e">>, <<"a","l","l">>, <<"p","a","t","h">> }

\* the result of an undefined mode token: an error naming it, no output, no lookup
UndefinedFlagResult ==
    /\ ~last.panic
    /\ ~last.rs.err.isNil
    /\ Occurs(last.rs.err.msg, <<"f","l","a","g"," ","u","n","d","e","f","i","n","e","d">>)
    /\ last.rs.output = <<>>
    /\ last.spawned = <<>>

\* normalization as the claim words it: -t, -a, -p and nothing else
NormalizeAsWritten(flag) ==
    CASE flag = <<"-","t">> -> <<"t","y","p","e">>
      [] flag = <<"-","a">> -> <<"a","l","l">>
      [] flag = <<"-","p">> -> <<"p","a","t","h">>
      [] OTHER -> flag

\* C6 as stated: a mode token that, with -t, -a, -p translated and every
\* other token left alone, is not type, all or path gives a "flag
\* undefined" error, empty output and no lookup.
C6_UndefinedAsWritten ==
    (last.op = "Exec" /\ last.cmd # <<>> /\ NormalizeAsWritten(last.flag) \notin Modes)
        => UndefinedFlagResult

\* normalization with the short flag taken in any letter case
NormalizeAnyCase(flag) ==
    CASE ToLower(flag) = <<"-","t">> -> <<"t","y","p","e">>
      [] ToLower(flag) = <<"-","a">> -> <<"a","l","l">>
      [] ToLower(flag) = <<"-","p">> -> <<"p","a","t","h">>
      [] OTHER -> flag

\* C6, amended: the short flags are translated in any letter case (-t/-T
\* to type, -a/-A to all, -p/-P to path), every other token is left alone;
\* a token that is then not type, all or path gives a "flag undefined"
\* error, empty output and no lookup.
C6_UndefinedFlag ==
    (last.op = "Exec" /\ last.cmd # <<>> /\ NormalizeAnyCase(last.flag) \notin Modes)
        => UndefinedFlagResult

C6_Witness ==
    /\ last.op = "Exec" /\ last.cmd = <<"l","s">> /\ last.flag = <<"-","x">>
    /\ last.rs.err.msg = <<"-","x",":","f","l","a","g"," ","u","n","d","e","f","i","n","e","d"," ">>
    /\ last.spawned = <<>>

\* C9: with a binary bound, Exec of the empty command name is a no-op
\* whatever the mode token: empty output, no error, nothing written, no
\* lookup started, the bound binary unchanged.
C9_EmptyCommandNoOp ==
    (last.op = "Exec" /\ last.cmd = <<>> /\ last.binBefore # <<>>) =>
        /\ ~last.panic
        /\ last.rs.output = <<>>
        /\ last.rs.err.isNil
        /\ last.toOut = <<>> /\ last.toStdout = <<>> /\ last.toErr = <<>>
        /\ last.spawned = <<>>
        /\ bin = last.binBefore

C9_Witness ==
    /\ last.op = "Exec" /\ last.cmd = <<>> /\ last.flag = <<"b","o","g","u","s">>
    /\ last.binBefore = defaultBind /\ bin = defaultBind
    /\ last.rs.err.isNil

----------------------------------------------------------------------------
(* Claims the code does not meet. *)

\* the text after the first "is" of a line
AfterIs(line) ==
    IF Occurs(line, <<"i","s">>)
    THEN LET p == CHOOSE p \in 1..(Len(line) - 1) :
                     /\ line[p] = "i" /\ line[p + 1] = "s"
                     /\ \A q \in 1..(p - 1) : ~(line[q] = "i" /\ line[q + 1] = "s")
         IN  SubSeq(line, p + 2, Len(line))
    ELSE <<>>

\* the line path mode reads the path from: the first when the output
\* splits into fewer than two lines, else the second
RelevantLine(text) ==
    LET lines == Split(text, NL)
    IN  IF Len(lines) < 2 THEN lines[1] ELSE lines[2]

\* C2: for a successful lookup whose first line classifies as file, Exec
\* in path mode returns, without error, the trimmed text after "is" on the
\* relevant line; for "<cmd> is <abs-path>" and a newline, <abs-path>.
C2_PathOfFile ==
    (ExecOf(PathTokens) /\ ~last.sub.err
        /\ getType(FirstLine(last.sub.bytes)) = TypeFile) =>
        /\ ~last.panic
        /\ last.rs.err.isNil
        /\ last.rs.output = TrimSpace(AfterIs(RelevantLine(last.sub.bytes)))
        /\ last.sub.bytes = <<"l","s"," ","i","s"," ","/","b","i","n","/","l","s","\n">> => last.rs.output = <<"/","b","i","n","/","l","s">>

\* C3: Exec in path mode returns the empty string and no error whenever
\* the command is not a file: the first line classifies as another
\* category, or the lookup could not be run or exited with an error.
C3_PathEmptyUnlessFile ==
    (ExecOf(PathTokens)
        /\ (last.sub.err \/ getType(FirstLine(last.sub.bytes)) # TypeFile)) =>
        /\ ~last.panic
        /\ last.rs.err.isNil
        /\ last.rs.output = <<>>

\* C7: after Bind(p) with p the absolute path of an existing file the
\* bound binary is p, and an Exec that starts the lookup starts the bound binary.
C7_BindAbsolute ==
    /\ (last.op = "Bind" /\ IsAbs(last.path) /\ last.path \in ExistingFiles)
           => bin = last.path
    /\ (last.op = "Exec" /\ last.spawned # <<>>) => last.spawned[1].bin = bin

\* C8: Bind(p) with p non-empty and naming no existing file, relative or
\* absolute, keeps the bound binary, writes a message to the error stream
\* (the Runner has one) and returns normally.
C8_BindMissing ==
    (last.op = "Bind" /\ last.path # <<>> /\ errFile = "file"
        /\ (IF IsAbs(last.path) THEN last.path ELSE Abs(last.path)) \notin ExistingFiles) =>
        /\ ~last.panic
        /\ bin = last.binBefore
        /\ last.toErr # <<>>

\* C10: Exec returns a Result for every mode in type, all, path, every
\* non-empty command name and every text the lookup can print; it never
\* aborts on an index out of range.
C10_ExecTotal ==
    (last.op = "Exec" /\ last.cmd # <<>> /\ NormalizeAnyCase(last.flag) \in Modes)
        => ~last.panic /\ ~crashed

====
